---- MODULE Spec2Model ----
(***************************************************************************)
(* Model of src/main.py: a FastAPI backend that stores sprite images,      *)
(* audio clips and player scores in a MongoDB database.                    *)
(*                                                                         *)
(* Strings are sequences of characters.  The characters are the            *)
(* representatives in Chars, one or more per class that the regular        *)
(* expressions of the program tell apart.  A file body is represented by   *)
(* its length in bytes, and its Base64 text by the length of that text.    *)
(* Each handler runs as one step: a handler performs at most one storage   *)
(* operation, and handlers share nothing but the database.                 *)
(***************************************************************************)
EXTENDS Integers, Sequences, FiniteSets, TLC

VARIABLES
    Sprites,     \* the documents of db.Sprites, in insertion order
    Audio,       \* the documents of db.Audio, in insertion order
    Scores,      \* the documents of db.Scores, in insertion order
    clients,     \* every AsyncIOMotorClient constructed so far, in order
    response,    \* the HTTP response of the latest request
    acked,       \* the score entries whose upload_score was answered 200
    san_pc,      \* sanitizer harness: "start", "once" or "twice"
    san_in,      \* sanitizer harness: the input string
    san_out,     \* sanitizer harness: sanitize_input(san_in)
    san_twice    \* sanitizer harness: sanitize_input(san_out)

store == <<Sprites, Audio, Scores>>
san == <<san_pc, san_in, san_out, san_twice>>
vars == <<Sprites, Audio, Scores, clients, response, acked, san_pc, san_in, san_out, san_twice>>

(***************************************************************************)
(* Bounds of the model.                                                    *)
(***************************************************************************)
\* longest input string given to the sanitizer harness
MaxLen == 3
\* number of requests that reach a handler in one behaviour
MaxRequests == 3
\* number of documents the three collections hold together
MaxDocs == 2

(***************************************************************************)
(* Characters and character classes.                                       *)
(***************************************************************************)
\* "U+00E9" stands for a non-ASCII letter, "!" for any special character
Chars == {"a", "7", "_", " ", "\t", "\n", "U+00E9", "!"}

AsciiLetters == {"a"}
AsciiDigits == {"7"}
NonAsciiLetters == {"U+00E9"}

\* \w of a Python 3 str pattern: Unicode letters and digits, and underscore
IsWord(c) == c \in AsciiLetters \cup AsciiDigits \cup NonAsciiLetters \cup {"_"}

\* \s of a Python 3 str pattern, and the characters str.strip() removes
IsSpace(c) == c \in {" ", "\t", "\n"}

\* the class [a-zA-Z0-9_ ] of the PlayerScore pattern
InPattern(c) == c \in AsciiLetters \cup AsciiDigits \cup {"_", " "}

Rep(c, n) == [i \in 1..n |-> c]

Strings(n) == UNION {[1..k -> Chars] : k \in 0..n}

(***************************************************************************)
(* sanitize_input                                                          *)
(***************************************************************************)
\* re.sub(r"[^\w\s]", "", s): drop every character that is neither \w nor \s
re_sub(s) == SelectSeq(s, LAMBDA c : IsWord(c) \/ IsSpace(c))

RECURSIVE lstrip(_)
lstrip(s) == IF s # <<>> /\ IsSpace(Head(s)) THEN lstrip(Tail(s)) ELSE s

RECURSIVE rstrip(_)
rstrip(s) ==
    IF s # <<>> /\ IsSpace(s[Len(s)]) THEN rstrip(SubSeq(s, 1, Len(s) - 1)) ELSE s

\* str.strip()
strip(s) == rstrip(lstrip(s))

sanitize_input_strip_first(input_str) == re_sub(strip(input_str))

sanitize_input(input_str) == strip(re_sub(input_str))

(***************************************************************************)
(* PlayerScore                                                             *)
(***************************************************************************)
min_length == 1
max_length == 50

\* pydantic accepts the body of upload_score
PlayerScore(score) ==
    /\ Len(score.player_name) >= min_length
    /\ Len(score.player_name) <= max_length
    /\ \A i \in 1..Len(score.player_name) : InPattern(score.player_name[i])
    /\ score.score \in Int

(***************************************************************************)
(* File upload security                                                    *)
(***************************************************************************)
ALLOWED_SPRITE_TYPES == {"image/png", "image/jpeg"}
ALLOWED_AUDIO_TYPES == {"audio/mpeg", "audio/wav"}
MAX_FILE_SIZE == 5 * 1024 * 1024

\* len(base64.b64encode(content)) for a content of n bytes
b64encode(n) == 4 * ((n + 2) \div 3)

(***************************************************************************)
(* Database setup                                                          *)
(***************************************************************************)
\* get_db constructs a client and returns its database; the client stays open
get_db(cs) == Append(cs, [by |-> "get_db", open |-> TRUE])

\* shutdown_db constructs another client and closes that one
shutdown_db(cs) == Append(cs, [by |-> "shutdown_db", open |-> FALSE])

\* the ObjectId the driver gives the next inserted document
next_id == Len(Sprites) + Len(Audio) + Len(Scores) + 1

\* the model takes a request when the bounds leave room for what it may add
InBounds(db) ==
    /\ Len(clients) < 2 * MaxRequests
    /\ db = "ok" => Len(Sprites) + Len(Audio) + Len(Scores) < MaxDocs

insert_one_partial(coll, doc, db) ==
    [raised |-> db # "ok", coll |-> Append(coll, doc), id |-> doc._id]

insert_one_replace(coll, doc, db) ==
    IF db = "ok"
    THEN [raised |-> FALSE, coll |-> <<doc>>, id |-> doc._id]
    ELSE [raised |-> TRUE, coll |-> coll, id |-> 0]

\* collection.insert_one(doc): appends doc, or raises and leaves coll alone
insert_one(coll, doc, db) ==
    IF db = "ok"
    THEN [raised |-> FALSE, coll |-> Append(coll, doc), id |-> doc._id]
    ELSE [raised |-> TRUE, coll |-> coll, id |-> 0]

(***************************************************************************)
(* Exceptions and responses                                                *)
(***************************************************************************)
HTTPException(status_code, detail) ==
    [type |-> "HTTPException", status_code |-> status_code, detail |-> detail]

\* what a failing insert_one or find raises
StorageError == [type |-> "PyMongoError", status_code |-> 0, detail |-> "storage failure"]

NoException == [type |-> "none", status_code |-> 0, detail |-> ""]

\* what the framework raises for a body that fails PlayerScore
RequestValidationError ==
    [type |-> "RequestValidationError", status_code |-> 422, detail |-> "validation error"]

\* the outcome of a try block: what it raised or returned, and the collection
\* it worked on as the block leaves it
Raise(e, coll) == [raised |-> TRUE, exc |-> e, body |-> <<>>, coll |-> coll]
Return(body, coll) == [raised |-> FALSE, exc |-> NoException, body |-> body, coll |-> coll]

\* except Exception as e: raise HTTPException(500, prefix + str(e)).
\* HTTPException is an Exception, so a 400 raised in the try block lands here.
except_Exception(prefix, e) == HTTPException(500, [prefix |-> prefix, e |-> e])

Respond(op, status, body) == [op |-> op, status |-> status, body |-> body]

\* the response of a handler whose try block ended in outcome out
handler_response(op, prefix, out) ==
    IF out.raised
    THEN LET exc == except_Exception(prefix, out.exc)
         IN  Respond(op, exc.status_code, [detail |-> exc.detail])
    ELSE Respond(op, 200, out.body)

\* try: db = get_db() ... finally: await shutdown_db()
connections(cs) == shutdown_db(get_db(cs))

(***************************************************************************)
(* Upload endpoints                                                        *)
(***************************************************************************)
\* len(content) > MAX_FILE_SIZE
exceeds_limit(n) == n > MAX_FILE_SIZE

upload_sprite_try_unvalidated(file, db) ==
    LET sprite_doc == [_id |-> next_id,
                       filename |-> sanitize_input(file.filename),
                       content |-> b64encode(file.size),
                       description |-> "Sprite uploaded via Base64"]
        result == insert_one(Sprites, sprite_doc, db)
    IN  IF result.raised
        THEN Raise(StorageError, result.coll)
        ELSE Return([message |-> "Sprite uploaded", id |-> result.id], result.coll)

upload_sprite_try(file, db) ==
    IF file.content_type \notin ALLOWED_SPRITE_TYPES
    THEN Raise(HTTPException(400, "Only PNG/JPEG images allowed"), Sprites)
    ELSE IF exceeds_limit(file.size)
    THEN Raise(HTTPException(400, "File exceeds 5MB limit"), Sprites)
    ELSE LET clean_filename == sanitize_input(file.filename)
             encoded == b64encode(file.size)
             sprite_doc == [_id |-> next_id,
                            filename |-> clean_filename,
                            content |-> encoded,
                            description |-> "Sprite uploaded via Base64"]
             result == insert_one(Sprites, sprite_doc, db)
         IN  IF result.raised
             THEN Raise(StorageError, result.coll)
             ELSE Return([message |-> "Sprite uploaded", id |-> result.id], result.coll)

upload_sprite(file, db) ==
    /\ InBounds(db)
    /\ LET out == upload_sprite_try(file, db)
       IN  /\ Sprites' = out.coll
           /\ response' = handler_response("upload_sprite", "Server error: ", out)
    /\ clients' = connections(clients)
    /\ UNCHANGED <<Audio, Scores, acked, san>>

upload_audio_try(file, db) ==
    IF file.content_type \notin ALLOWED_AUDIO_TYPES
    THEN Raise(HTTPException(400, "Only MP3/WAV audio allowed"), Audio)
    ELSE IF exceeds_limit(file.size)
    THEN Raise(HTTPException(400, "File exceeds 5MB limit"), Audio)
    ELSE LET clean_filename == sanitize_input(file.filename)
             encoded == b64encode(file.size)
             audio_doc == [_id |-> next_id,
                           filename |-> clean_filename,
                           content |-> encoded,
                           description |-> "Audio uploaded via Base64"]
             result == insert_one(Audio, audio_doc, db)
         IN  IF result.raised
             THEN Raise(StorageError, result.coll)
             ELSE Return([message |-> "Audio uploaded", id |-> result.id], result.coll)

upload_audio(file, db) ==
    /\ InBounds(db)
    /\ LET out == upload_audio_try(file, db)
       IN  /\ Audio' = out.coll
           /\ response' = handler_response("upload_audio", "Server error: ", out)
    /\ clients' = connections(clients)
    /\ UNCHANGED <<Sprites, Scores, acked, san>>

upload_score_try(score, db) ==
    LET sanitized_name == sanitize_input(score.player_name)
        score_doc == [_id |-> next_id,
                      player_name |-> sanitized_name,
                      score |-> score.score]
        result == insert_one(Scores, score_doc, db)
    IN  IF result.raised
        THEN Raise(StorageError, result.coll)
        ELSE Return([message |-> "Score recorded", id |-> result.id], result.coll)

\* the body passed PlayerScore and the handler ran
upload_score(score, db) ==
    /\ InBounds(db)
    /\ PlayerScore(score)
    /\ LET out == upload_score_try(score, db)
       IN  /\ Scores' = out.coll
           /\ response' = handler_response("upload_score", "Server error: ", out)
           /\ acked' = IF out.raised
                       THEN acked
                       ELSE acked \cup {[player_name |-> sanitize_input(score.player_name),
                                         score |-> score.score]}
    /\ clients' = connections(clients)
    /\ UNCHANGED <<Sprites, Audio, san>>

\* the body failed PlayerScore: the framework answers 422, the handler never runs
upload_score_invalid(score) ==
    /\ ~PlayerScore(score)
    /\ response' = Respond("upload_score", RequestValidationError.status_code,
                            [detail |-> [prefix |-> "", e |-> RequestValidationError]])
    /\ UNCHANGED <<Sprites, Audio, Scores, clients, acked, san>>

(***************************************************************************)
(* Retrieval endpoints                                                     *)
(***************************************************************************)
\* async for doc in collection.find(): every document, or an exception
find(coll, db) ==
    IF db = "ok" THEN Return(coll, coll) ELSE Raise(StorageError, coll)

asset_item_whole(doc) ==
    [filename |-> doc.filename, description |-> doc.description, content |-> doc.content]

\* {"filename": doc.get("filename"), "description": doc.get("description")}
asset_item(doc) == [filename |-> doc.filename, description |-> doc.description]

\* {"player_name": doc.get("player_name"), "score": doc.get("score")}
score_item(doc) == [player_name |-> doc.player_name, score |-> doc.score]

get_sprites_try(db) ==
    LET cursor == find(Sprites, db)
    IN  IF cursor.raised
        THEN cursor
        ELSE Return([sprites |-> [i \in DOMAIN cursor.body |-> asset_item(cursor.body[i])]],
                    cursor.coll)

get_sprites(db) ==
    /\ Len(clients) < 2 * MaxRequests
    /\ response' = handler_response("get_sprites", "Error: ", get_sprites_try(db))
    /\ clients' = connections(clients)
    /\ UNCHANGED <<Sprites, Audio, Scores, acked, san>>

get_audio_try(db) ==
    LET cursor == find(Audio, db)
    IN  IF cursor.raised
        THEN cursor
        ELSE Return([audio |-> [i \in DOMAIN cursor.body |-> asset_item(cursor.body[i])]],
                    cursor.coll)

get_audio(db) ==
    /\ Len(clients) < 2 * MaxRequests
    /\ response' = handler_response("get_audio", "Error: ", get_audio_try(db))
    /\ clients' = connections(clients)
    /\ UNCHANGED <<Sprites, Audio, Scores, acked, san>>

get_scores_try(db) ==
    LET cursor == find(Scores, db)
    IN  IF cursor.raised
        THEN cursor
        ELSE Return([scores |-> [i \in DOMAIN cursor.body |-> score_item(cursor.body[i])]],
                    cursor.coll)

get_scores(db) ==
    /\ Len(clients) < 2 * MaxRequests
    /\ response' = handler_response("get_scores", "Error: ", get_scores_try(db))
    /\ clients' = connections(clients)
    /\ UNCHANGED <<Sprites, Audio, Scores, acked, san>>

(***************************************************************************)
(* Requests                                                                *)
(***************************************************************************)
FileTypes == {"image/png", "image/jpeg", "image/gif", "audio/mpeg", "audio/wav"}

\* 10 KB, the ceiling, one byte more
FileSizes == {10 * 1024, MAX_FILE_SIZE, MAX_FILE_SIZE + 1}

\* " a!" and "<e-acute><tab>a"
FileNames == {<<" ", "a", "!">>, <<"U+00E9", "\t", "a">>}

Files == [content_type : FileTypes, size : FileSizes, filename : FileNames]

\* "", " ", " a", "a!", 50 letters, 51 letters
PlayerNames ==
    {<<>>, <<" ">>, <<" ", "a">>, <<"a", "!">>,
     Rep("a", max_length), Rep("a", max_length + 1)}

ScoreValues == {-1, 42}

ScoreBodies == [player_name : PlayerNames, score : ScoreValues]

DbOutcomes == {"ok", "fail"}

Init ==
    /\ Sprites = <<>>
    /\ Audio = <<>>
    /\ Scores = <<>>
    /\ clients = <<>>
    /\ response = Respond("none", 0, <<>>)
    /\ acked = {}
    /\ san_pc = "start"
    /\ san_in = <<>>
    /\ san_out = <<>>
    /\ san_twice = <<>>

UploadSprite == \E file \in Files, db \in DbOutcomes : upload_sprite(file, db)
UploadAudio == \E file \in Files, db \in DbOutcomes : upload_audio(file, db)
UploadScore == \E score \in ScoreBodies, db \in DbOutcomes : upload_score(score, db)
UploadScoreInvalid == \E score \in ScoreBodies : upload_score_invalid(score)
GetSprites == \E db \in DbOutcomes : get_sprites(db)
GetAudio == \E db \in DbOutcomes : get_audio(db)
GetScores == \E db \in DbOutcomes : get_scores(db)

Next ==
    \/ UploadSprite
    \/ UploadAudio
    \/ UploadScore
    \/ UploadScoreInvalid
    \/ GetSprites
    \/ GetAudio
    \/ GetScores

Spec == Init /\ [][Next]_vars

(***************************************************************************)
(* The sanitizer on its own: every string of at most MaxLen characters.    *)
(***************************************************************************)
InitSan ==
    /\ Sprites = <<>>
    /\ Audio = <<>>
    /\ Scores = <<>>
    /\ clients = <<>>
    /\ response = Respond("none", 0, <<>>)
    /\ acked = {}
    /\ san_pc = "start"
    /\ san_in \in Strings(MaxLen)
    /\ san_out = <<>>
    /\ san_twice = <<>>

Sanitize ==
    /\ san_pc = "start"
    /\ san_out' = sanitize_input(san_in)
    /\ san_pc' = "once"
    /\ UNCHANGED <<Sprites, Audio, Scores, clients, response, acked, san_in, san_twice>>

SanitizeAgain ==
    /\ san_pc = "once"
    /\ san_twice' = sanitize_input(san_out)
    /\ san_pc' = "twice"
    /\ UNCHANGED <<Sprites, Audio, Scores, clients, response, acked, san_in, san_out>>

NextSan ==
    \/ Sanitize
    \/ SanitizeAgain

SpecSan == InitSan /\ [][NextSan]_vars

(***************************************************************************)
(* Properties                                                              *)
(***************************************************************************)
Total == Len(Sprites) + Len(Audio) + Len(Scores)

\* the sprite validator has to reject file
RejectedSprite(file) ==
    file.content_type \notin ALLOWED_SPRITE_TYPES \/ file.size > MAX_FILE_SIZE

\* the audio validator has to reject file
RejectedAudio(file) ==
    file.content_type \notin ALLOWED_AUDIO_TYPES \/ file.size > MAX_FILE_SIZE

\* the latest response reports an exception of the given type
Reports(type) ==
    /\ response.op \notin {"none"}
    /\ response.status = 500
    /\ response.body.detail.e.type = type

\* C1: every upload_sprite or upload_audio request whose content type is outside
\* the endpoint's allow-list, or whose body exceeds 5,242,880 bytes, is answered
\* with status 400.
C1_RejectedUploadIs400 ==
    [][\A file \in Files, db \in DbOutcomes :
          /\ (RejectedSprite(file) /\ upload_sprite(file, db)) => response'.status = 400
          /\ (RejectedAudio(file) /\ upload_audio(file, db)) => response'.status = 400]_vars

\* C2: between requests, no client that a handler opened with get_db is open.
C2_HandlerClientsClosed ==
    \A i \in DOMAIN clients : clients[i].by = "get_db" => ~clients[i].open

\* C3: an upload rejected for its content type or its size leaves Sprites, Audio
\* and Scores as they were; an upload of exactly 5,242,880 bytes with an allowed
\* type, whose insert succeeds, adds one document to its collection.
C3_RejectedUploadWritesNothing ==
    [][/\ UNCHANGED store
          \/ ~\E file \in Files, db \in DbOutcomes :
                 \/ RejectedSprite(file) /\ upload_sprite(file, db)
                 \/ RejectedAudio(file) /\ upload_audio(file, db)
       /\ response'.op # "upload_sprite"
          \/ (Len(Sprites') = Len(Sprites) + 1 /\ UNCHANGED <<Audio, Scores>>)
          \/ ~\E file \in Files :
                 /\ file.size = MAX_FILE_SIZE
                 /\ file.content_type \in ALLOWED_SPRITE_TYPES
                 /\ upload_sprite(file, "ok")
       /\ response'.op # "upload_audio"
          \/ (Len(Audio') = Len(Audio) + 1 /\ UNCHANGED <<Sprites, Scores>>)
          \/ ~\E file \in Files :
                 /\ file.size = MAX_FILE_SIZE
                 /\ file.content_type \in ALLOWED_AUDIO_TYPES
                 /\ upload_audio(file, "ok")]_vars

\* a rejected sprite upload has just been answered while a sprite of exactly
\* 5,242,880 bytes is stored
C3_Witness ==
    /\ response.op = "upload_sprite"
    /\ Reports("HTTPException")
    /\ \E i \in DOMAIN Sprites : Sprites[i].content = b64encode(MAX_FILE_SIZE)

\* C4: sanitize_input(S) contains only characters of [A-Za-z0-9_ ] and has no
\* leading or trailing whitespace.
C4_SanitizedIsAsciiTrimmed ==
    san_pc # "start" =>
        /\ \A i \in DOMAIN san_out : InPattern(san_out[i])
        /\ san_out # <<>> => ~IsSpace(san_out[1]) /\ ~IsSpace(san_out[Len(san_out)])

\* a letter or a digit, ASCII or not
IsAlnum(c) == c \in AsciiLetters \cup AsciiDigits \cup NonAsciiLetters

OnlyAlnumSpaceUnderscore(s) == \A i \in DOMAIN s : IsAlnum(s[i]) \/ s[i] \in {" ", "_"}

\* C5: every stored filename and every stored player_name consists only of
\* alphanumeric characters, spaces and underscores.
C5_StoredNamesClean ==
    /\ \A i \in DOMAIN Sprites : OnlyAlnumSpaceUnderscore(Sprites[i].filename)
    /\ \A i \in DOMAIN Audio : OnlyAlnumSpaceUnderscore(Audio[i].filename)
    /\ \A i \in DOMAIN Scores : OnlyAlnumSpaceUnderscore(Scores[i].player_name)

\* C6: every stored player_name is between 1 and 50 characters long.
C6_StoredNameLength ==
    \A i \in DOMAIN Scores :
        /\ Len(Scores[i].player_name) >= 1
        /\ Len(Scores[i].player_name) <= 50

\* C7: once upload_score has succeeded for a name and a score, every get_scores
\* that succeeds later returns an entry with the sanitized name and that score.
C7_AckedScoresListed ==
    (response.op = "get_scores" /\ response.status = 200) =>
        \A e \in acked :
            \E i \in DOMAIN response.body.scores : response.body.scores[i] = e

\* get_scores succeeds after a score was accepted and a sprite was uploaded
C7_Witness ==
    /\ response.op = "get_scores"
    /\ response.status = 200
    /\ acked # {}
    /\ Len(Sprites) > 0

\* C8: the items a list endpoint returns are the stored documents, each reduced
\* to filename and description (sprites, audio) or to player_name and score
\* (scores); no item has a content field.
C8_ListItemsHaveNoContent ==
    response.status = 200 =>
        /\ response.op = "get_sprites" =>
              /\ Len(response.body.sprites) = Len(Sprites)
              /\ \A i \in DOMAIN Sprites :
                    /\ DOMAIN response.body.sprites[i] = {"filename", "description"}
                    /\ response.body.sprites[i].filename = Sprites[i].filename
                    /\ response.body.sprites[i].description = Sprites[i].description
        /\ response.op = "get_audio" =>
              /\ Len(response.body.audio) = Len(Audio)
              /\ \A i \in DOMAIN Audio :
                    /\ DOMAIN response.body.audio[i] = {"filename", "description"}
                    /\ response.body.audio[i].filename = Audio[i].filename
                    /\ response.body.audio[i].description = Audio[i].description
        /\ response.op = "get_scores" =>
              /\ Len(response.body.scores) = Len(Scores)
              /\ \A i \in DOMAIN Scores :
                    /\ DOMAIN response.body.scores[i] = {"player_name", "score"}
                    /\ response.body.scores[i].player_name = Scores[i].player_name
                    /\ response.body.scores[i].score = Scores[i].score

\* get_sprites and get_audio have something with content to list
C8_Witness ==
    /\ response.op = "get_audio"
    /\ response.status = 200
    /\ Len(Audio) > 0
    /\ Len(Sprites) > 0
    /\ Audio[1].content > 0

\* C9: a request whose storage operation fails is answered 500 and leaves the
\* store unchanged; no request adds more than one document.
C9_StorageFailureIs500 ==
    [][/\ (response'.status = 500 /\ UNCHANGED store)
          \/ ~\/ \E file \in Files :
                    \/ ~RejectedSprite(file) /\ upload_sprite(file, "fail")
                    \/ ~RejectedAudio(file) /\ upload_audio(file, "fail")
              \/ \E score \in ScoreBodies : upload_score(score, "fail")
              \/ get_sprites("fail")
              \/ get_audio("fail")
              \/ get_scores("fail")
       /\ Len(Sprites') + Len(Audio') + Len(Scores') <= Total + 1]_vars

\* an insert has just failed on a store that holds documents
C9_Witness ==
    /\ response.op = "upload_score"
    /\ Reports("PyMongoError")
    /\ Len(Scores) > 0

\* C10: sanitize_input(sanitize_input(S)) = sanitize_input(S).
C10_SanitizeIdempotent == san_pc = "twice" => san_twice = san_out

\* the sanitizer was applied twice to a string that it changes
C10_Witness ==
    /\ san_pc = "twice"
    /\ san_out # san_in
    /\ san_out # <<>>

====
